---- MODULE Spec2Model ----
(***************************************************************************)
(* Model of moss-agent (src/src/main.rs): the capture callback that turns  *)
(* raw rdev events into deduplicated, throttled events, the tokio          *)
(* broadcast channel that fans them out to the StreamEvents subscribers,   *)
(* the Start/Stop/StreamEvents RPC handlers, the baseline task spawned by  *)
(* Start and the periodic system monitoring loop.                          *)
(*                                                                         *)
(* Times are in milliseconds.  Variables whose name starts with g_ are     *)
(* history variables: the program does not hold them, they record what     *)
(* has happened so that the properties can speak about it.                 *)
(***************************************************************************)
EXTENDS Integers, Sequences, FiniteSets, TLC

\* ------------------------------------------------------------------ bounds
\* Number of slots of the broadcast channel in the model.  The program
\* creates the channel with 1024 slots (main.rs:200); the model keeps the
\* ring small so that a receiver can be overrun within MaxEvents sends.
Capacity == 2
\* Most send calls in one behaviour.
MaxEvents == 3
\* Latest clock value explored.
MaxTime == 60
\* Most baseline tasks spawned by Start and not yet run.
MaxTasks == 1

\* --------------------------------------------------------- program values
\* main.rs:204  mouse_move_interval = 0.05 s
MouseMoveInterval == 50
\* main.rs:215  last_mouse_move_time starts one second in the past
InitialMoveAge == 1000

\* ------------------------------------------------------------ input sets
Keys == {"KeyA", "KeyB"}
Buttons == {"Left"}
Points == {<<3, 4>>}
Deltas == {<<0, 1>>}
TimeSteps == {10, 50}
Subscribers == {"s1", "s2"}

RawEvents ==
    [kind : {"KeyPress", "KeyRelease"}, arg : Keys]
    \cup [kind : {"ButtonPress", "ButtonRelease"}, arg : Buttons]
    \cup [kind : {"MouseMove"}, arg : Points]
    \cup [kind : {"Wheel"}, arg : Deltas]

\* The snapshots the inventory can return in the model: a base host and
\* the same host after a change of one compared field.
BaseHost ==
    [directx_version |-> "DirectX 12", os_version |-> "10.0",
     memory_mb |-> 8192, local_ip |-> "10.0.0.2", public_ip |-> "1.2.3.4",
     usb_input_devices |-> <<"kbd">>, monitors |-> <<"m1">>,
     video_cards |-> <<"gpu">>, pci_devices |-> <<"p1", "p2">>,
     drives |-> <<"d1">>, user |-> "u@HOST"]
HostStates == {BaseHost, [BaseHost EXCEPT !.memory_mb = 16384]}

VARIABLES
    capturing,              \* AtomicBool shared by service, callback, monitor
    pressed_keys,           \* HashSet<Key> of the callback
    pressed_buttons,        \* HashSet<Button> of the callback
    last_mouse_move_time,   \* Instant of the last accepted MouseMove
    now,                    \* the clock (Instant::now())
    tail_pos,               \* broadcast channel: position of the next send
    buffer,                 \* broadcast channel: the ring of slots
    rx,                     \* per subscriber: its Receiver and stream state
    received,               \* per subscriber: the events its stream yielded
    error_log,              \* the messages written with eprintln!
    baseline_tasks,         \* baseline tasks spawned by Start, not yet run
    system_info,            \* MyCaptureService.system_info
    last_system_info,       \* the monitoring loop's last_system_info
    monitor_pc,             \* where the monitoring loop is
    host,                   \* what the inventory currently reports
    shutdown,               \* the process has exited
    system_event,           \* baseline task: the Event it built, not yet sent
    listener,               \* listener thread: "starting", "listening", "failed"
    g_published,            \* history: every event handed to send, in order
    g_last_raw,             \* history: the raw event the callback saw last
    g_run,                  \* history, per key: the current run of key-downs
    g_tick                  \* history: how the monitor's last collect ended

vars == <<capturing, pressed_keys, pressed_buttons, last_mouse_move_time, now,
          tail_pos, buffer, rx, received, error_log, baseline_tasks,
          system_info, last_system_info, monitor_pc, host, shutdown,
          system_event, listener, g_published, g_last_raw, g_run, g_tick>>

captureVars == <<pressed_keys, pressed_buttons, last_mouse_move_time>>
busVars == <<tail_pos, buffer, error_log, g_published>>
monitorVars == <<last_system_info, monitor_pc>>

ghostVars == <<g_last_raw, g_run, g_tick>>

None == [tag |-> "None"]
Some(v) == [tag |-> "Some", val |-> v]

\* ------------------------------------------------------- broadcast channel
\* Semantics of tokio::sync::broadcast as the program uses it.

\* Number of live Receivers (the one channel() returns is dropped at once).
RxCnt == Cardinality({s \in Subscribers : rx[s].state = "open"})

\* The slot a position maps to.
SlotOf(pos) == pos % Capacity

\* Sender::send fails with SendError when there is no Receiver and stores
\* nothing; its Display text is "channel closed".
SendFails == RxCnt = 0
SendErrorText == "channel closed"

\* e.to_string().contains("channel closed")
ContainsNoReceivers(text) == text = "no receivers"
ContainsChannelClosed(text) == text = "channel closed"

\* The handlers log a send error unless its text contains "channel closed".
SendErrorLogged(text) == ~ContainsChannelClosed(text)

\* Sender::send is not async: it takes the slot at the tail at once,
\* whatever the Receivers have read.
SendWaitsForRoom ==
    \A s \in Subscribers :
        rx[s].state = "open" => tail_pos - rx[s].next < Capacity
SendProceeds == TRUE

\* tx.send(ev) / broadcaster.send(ev) followed by the handler's error check;
\* what names the message the handler would log.
\* stamp is the time the Event's timestamp was taken at.
PublishAt(ev, what, stamp) ==
    /\ Len(g_published) < MaxEvents
    /\ SendProceeds
    /\ g_published' = Append(g_published,
                              [event |-> ev, rx_cnt |-> RxCnt, at |-> now,
                               stamp |-> stamp])
    /\ IF SendFails
       THEN /\ UNCHANGED <<tail_pos, buffer>>
            /\ error_log' = IF SendErrorLogged(SendErrorText)
                            THEN error_log \cup {what}
                            ELSE error_log
       ELSE /\ buffer' = [buffer EXCEPT ![SlotOf(tail_pos)] =
                              [pos |-> tail_pos, val |-> ev,
                               seq |-> Len(g_published) + 1]]
            /\ tail_pos' = tail_pos + 1
            /\ UNCHANGED error_log

\* A send by a handler that takes the timestamp and sends in one step.
Publish(ev, what) == PublishAt(ev, what, now)

\* Sender::subscribe: the new Receiver starts at the tail.
SubscribeAtOldest == IF tail_pos > Capacity THEN tail_pos - Capacity ELSE 0
SubscribeAt == tail_pos

\* Receiver::recv on a Receiver whose next position is nxt:
\* Empty when the slot still holds the value of one lap before,
\* Lagged when the slot was overwritten, else the value.
RecvResultNewest(nxt) ==
    IF nxt >= tail_pos THEN [tag |-> "Empty"]
    ELSE [tag |-> "Ok", val |-> buffer[SlotOf(tail_pos - 1)].val,
          seq |-> buffer[SlotOf(tail_pos - 1)].seq]
RecvResultEarlyLag(nxt) ==
    IF nxt >= tail_pos THEN [tag |-> "Empty"]
    ELSE IF tail_pos - nxt >= Capacity THEN [tag |-> "Lagged"]
    ELSE [tag |-> "Ok", val |-> buffer[SlotOf(nxt)].val,
          seq |-> buffer[SlotOf(nxt)].seq]
RecvResult(nxt) ==
    LET slot == buffer[SlotOf(nxt)] IN
    IF slot.pos = nxt THEN [tag |-> "Ok", val |-> slot.val, seq |-> slot.seq]
    ELSE IF slot.pos + Capacity = nxt THEN [tag |-> "Empty"]
    ELSE [tag |-> "Lagged"]

\* ------------------------------------------------------- capture callback
\* format_event_details
format_event_details(event) ==
    CASE event.kind \in {"KeyPress", "KeyRelease"} -> event.arg
      [] event.kind \in {"ButtonPress", "ButtonRelease"} -> event.arg
      [] event.kind = "MouseMove" -> <<event.arg[1], ",", event.arg[2]>>
      [] event.kind = "Wheel" -> <<"dx=", event.arg[1], ",dy=", event.arg[2]>>

\* keys.contains(key) / buttons.contains(button)
KeyNeverPressed(key) == FALSE
KeyIsPressed(key) == key \in pressed_keys
ButtonIsPressed(button) == button \in pressed_buttons

\* The name the KeyRelease / ButtonRelease arm gives.
KeyReleaseNameIfPressed(key) ==
    IF key \in pressed_keys THEN Some("KeyRelease") ELSE None
KeyReleaseName(key) == Some("KeyRelease")
ButtonReleaseNameIfPressed(button) ==
    IF button \in pressed_buttons THEN Some("MouseButtonRelease") ELSE None
ButtonReleaseName(button) == Some("MouseButtonRelease")

\* now.duration_since(*last_time).as_secs_f64() >= interval
MoveAcceptedStrict(t, last) == t - last > MouseMoveInterval
MoveAccepted(t, last) == t - last >= MouseMoveInterval

\* The KeyRelease arm removes the key from the set.
KeysAfterReleaseKept(key) == pressed_keys
KeysAfterRelease(key) == pressed_keys \ {key}

\* The Wheel arm names every wheel event.
WheelNameIfNew(event) ==
    IF g_last_raw # None /\ g_last_raw.event = event /\ g_last_raw.sent
    THEN None ELSE Some("MouseWheel")
WheelName(event) == Some("MouseWheel")

\* The match of the callback: the event name (or None), and the new sets
\* and timestamp.
Classify(event) ==
    CASE event.kind = "KeyPress" ->
           IF KeyIsPressed(event.arg)
           THEN [name |-> None, keys |-> pressed_keys,
                 buttons |-> pressed_buttons, last |-> last_mouse_move_time]
           ELSE [name |-> Some("KeyPress"),
                 keys |-> pressed_keys \cup {event.arg},
                 buttons |-> pressed_buttons, last |-> last_mouse_move_time]
      [] event.kind = "KeyRelease" ->
           [name |-> KeyReleaseName(event.arg),
            keys |-> KeysAfterRelease(event.arg),
            buttons |-> pressed_buttons, last |-> last_mouse_move_time]
      [] event.kind = "ButtonPress" ->
           IF ButtonIsPressed(event.arg)
           THEN [name |-> None, keys |-> pressed_keys,
                 buttons |-> pressed_buttons, last |-> last_mouse_move_time]
           ELSE [name |-> Some("MouseButtonPress"), keys |-> pressed_keys,
                 buttons |-> pressed_buttons \cup {event.arg},
                 last |-> last_mouse_move_time]
      [] event.kind = "ButtonRelease" ->
           [name |-> ButtonReleaseName(event.arg), keys |-> pressed_keys,
            buttons |-> pressed_buttons \ {event.arg},
            last |-> last_mouse_move_time]
      [] event.kind = "MouseMove" ->
           IF MoveAccepted(now, last_mouse_move_time)
           THEN [name |-> Some("MouseMove"), keys |-> pressed_keys,
                 buttons |-> pressed_buttons, last |-> now]
           ELSE [name |-> None, keys |-> pressed_keys,
                 buttons |-> pressed_buttons, last |-> last_mouse_move_time]
      [] event.kind = "Wheel" ->
           [name |-> WheelName(event), keys |-> pressed_keys,
            buttons |-> pressed_buttons, last |-> last_mouse_move_time]

\* The capturing gate of the callback.
GateOpen == TRUE
Gate == capturing

\* History of the runs of key-downs: a run of a key starts after a
\* processed key-up of the key (or at the beginning) and holds the
\* key-downs processed since.  downs and presses count the key-downs
\* processed and the KeyPress published in the run (2 stands for two or
\* more); toggles is 1 once capture was stopped during the run and 2 once
\* a key-down of the run was processed after that.
IdleRun == [downs |-> 0, presses |-> 0, toggles |-> 0]
UpTo2(n) == IF n >= 2 THEN 2 ELSE n
RunAfter(event, sent) ==
    CASE event.kind = "KeyPress" ->
           [g_run EXCEPT ![event.arg] =
               [downs |-> UpTo2(@.downs + 1),
                presses |-> IF sent THEN UpTo2(@.presses + 1) ELSE @.presses,
                toggles |-> IF @.toggles = 1 THEN 2 ELSE @.toggles]]
      [] event.kind = "KeyRelease" -> [g_run EXCEPT ![event.arg] = IdleRun]
      [] OTHER -> g_run
RunAfterStop ==
    [k \in Keys |->
        IF capturing /\ g_run[k].downs >= 1 /\ g_run[k].toggles = 0
        THEN [g_run[k] EXCEPT !.toggles = 1]
        ELSE g_run[k]]

\* listen(callback) registered the callback: rdev calls it.  When the
\* registration failed the thread has logged the error and ended.
ListenerRunsAlways == TRUE
ListenerRuns == listener = "listening"

\* The callback rdev calls with one raw event.
Callback(event) ==
    /\ ~shutdown
    /\ ListenerRuns
    /\ IF ~Gate
       THEN /\ g_last_raw' = [event |-> event, gated |-> TRUE, sent |-> FALSE]
            /\ UNCHANGED <<captureVars, busVars, g_run>>
       ELSE LET c == Classify(event) IN
            /\ pressed_keys' = c.keys
            /\ pressed_buttons' = c.buttons
            /\ last_mouse_move_time' = c.last
            /\ g_last_raw' = [event |-> event, gated |-> FALSE,
                              sent |-> c.name # None]
            /\ g_run' = RunAfter(event, c.name # None)
            /\ IF c.name # None
               THEN Publish([name |-> c.name.val,
                             details |-> format_event_details(event)],
                            "Failed to send event")
               ELSE UNCHANGED busVars
    /\ UNCHANGED <<capturing, now, rx, received, baseline_tasks, system_info,
                   monitorVars, host, shutdown, system_event, listener, g_tick>>

\* Time passes.
Tick(d) ==
    /\ ~shutdown
    /\ now + d <= MaxTime
    /\ now' = now + d
    /\ UNCHANGED <<capturing, captureVars, busVars, rx, received,
                   baseline_tasks, system_info, monitorVars, host, shutdown, system_event, listener,
                   ghostVars>>

\* ------------------------------------------------------------ RPC service
\* What the two handlers store into the flag.
StoreOnStartKeeps == capturing
StoreOnStart == TRUE
StoreOnStop == FALSE

\* MyCaptureService::start: sets the flag and spawns the baseline task.
Start ==
    /\ ~shutdown
    /\ baseline_tasks < MaxTasks
    /\ capturing' = StoreOnStart
    /\ baseline_tasks' = baseline_tasks + 1
    /\ UNCHANGED <<captureVars, now, busVars, rx, received, system_info,
                   monitorVars, host, shutdown, system_event, listener, ghostVars>>

\* MyCaptureService::stop has no access to the sets of the callback.
KeysAfterStopReset == {}
KeysAfterStop == pressed_keys

\* MyCaptureService::stop
Stop ==
    /\ ~shutdown
    /\ capturing' = StoreOnStop
    /\ pressed_keys' = KeysAfterStop
    /\ g_run' = RunAfterStop
    /\ UNCHANGED <<pressed_buttons, last_mouse_move_time, now, busVars, rx,
                   received, baseline_tasks, system_info, monitorVars, host,
                   shutdown, system_event, listener, g_last_raw, g_tick>>

\* MyCaptureService::stream_events: subscribes and returns the stream.
StreamEvents(s) ==
    /\ ~shutdown
    /\ rx[s].state = "new"
    /\ rx' = [rx EXCEPT ![s] = [state |-> "open", next |-> SubscribeAt,
                                joined |-> Len(g_published), cause |-> "-"]]
    /\ UNCHANGED <<capturing, captureVars, now, busVars, received,
                   baseline_tasks, system_info, monitorVars, host, shutdown, system_event,
                   listener, ghostVars>>

\* What the stream does with the result of rx.recv().await:
\* `while let Ok(event)` yields a value and leaves the loop on any Err.
StreamContinues(result) == result.tag = "Ok"

\* One turn of the stream's loop, run when recv has something to return.
StreamNext(s) ==
    /\ ~shutdown
    /\ rx[s].state = "open"
    /\ LET r == RecvResult(rx[s].next) IN
       /\ r.tag # "Empty"
       /\ IF StreamContinues(r)
          THEN /\ received' = [received EXCEPT ![s] =
                                  Append(@, [event |-> r.val, seq |-> r.seq])]
               /\ rx' = [rx EXCEPT ![s].next = @ + 1]
          ELSE /\ rx' = [rx EXCEPT ![s].state = "ended", ![s].cause = r.tag]
               /\ UNCHANGED received
    /\ UNCHANGED <<capturing, captureVars, now, busVars, baseline_tasks,
                   system_info, monitorVars, host, shutdown, system_event, listener, ghostVars>>

\* The client drops the stream; the Receiver is dropped with it.
Disconnect(s) ==
    /\ ~shutdown
    /\ rx[s].state = "open"
    /\ rx' = [rx EXCEPT ![s].state = "ended", ![s].cause = "Disconnect"]
    /\ UNCHANGED <<capturing, captureVars, now, busVars, received,
                   baseline_tasks, system_info, monitorVars, host, shutdown, system_event, listener,
                   ghostVars>>

\* ------------------------------------------------------ system information
\* The commands every SystemInfo::collect runs.  (systeminfo and the PnP
\* query run only when wmic returned no memory size or no USB device;
\* they are called like the others.)
Commands ==
    {"dxdiag", "wmic_pci", "wmic_memory", "wmic_computersystem", "wmic_bios",
     "wmic_drives", "ipconfig", "nslookup", "wmic_video", "wmic_monitors",
     "wmic_monitor_serials", "wmic_usb", "wmic_cpu", "wmic_cpu_cores",
     "wmic_os", "wmic_uuid", "whoami"}

\* The commands whose failure to run is caught where they are called: the
\* public IP and the monitors' serial numbers become "Unknown".
Tolerated == {"nslookup", "wmic_monitor_serials"}

\* SystemInfo::collect when the commands of failed cannot be run: every
\* other output().map_err(..)? returns the error from collect.
collect(failed) ==
    IF failed \ Tolerated # {}
    THEN [tag |-> "Err"]
    ELSE [tag |-> "Ok",
          val |-> IF "nslookup" \in failed
                  THEN [host EXCEPT !.public_ip = "Unknown"]
                  ELSE host]

\* The sets of failing commands the tasks of the agent are run with.
FailureInputs == {{}, {"dxdiag"}}

\* SystemInfo::to_formatted_string: the JSON text of the whole snapshot.
to_formatted_string(info) == <<"json", info>>

\* The collections are compared by their len().
CountUpToOne(list) == IF list = <<>> THEN 0 ELSE 1
Count(list) == Len(list)

\* One line of compare_system_info, pushed when the two values differ.
ChangeLineAlways(label, old, new) ==
    <<[field |-> label, old |-> old, new |-> new]>>
ChangeLine(label, old, new) ==
    IF old # new THEN <<[field |-> label, old |-> old, new |-> new]>>
    ELSE <<>>

\* compare_system_info: the pushed lines in order (joined with "\n" by the
\* code; the joined text is empty exactly when no line was pushed).
compare_system_info(old, new) ==
    ChangeLine("DirectX version", old.directx_version, new.directx_version)
    \o ChangeLine("OS version", old.os_version, new.os_version)
    \o ChangeLine("Memory", old.memory_mb, new.memory_mb)
    \o ChangeLine("Local IP", old.local_ip, new.local_ip)
    \o ChangeLine("Public IP", old.public_ip, new.public_ip)
    \o ChangeLine("USB devices count", Count(old.usb_input_devices),
                  Count(new.usb_input_devices))
    \o ChangeLine("Monitor count", Count(old.monitors), Count(new.monitors))
    \o ChangeLine("Video cards count", Count(old.video_cards),
                  Count(new.video_cards))
    \o ChangeLine("PCI devices count", Count(old.pci_devices),
                  Count(new.pci_devices))

\* The task Start spawned: collect, store the snapshot, send "SystemInfo".
BaselineTaskOn(failed) ==
    /\ ~shutdown
    /\ baseline_tasks > 0
    /\ baseline_tasks' = baseline_tasks - 1
    /\ LET r == collect(failed) IN
          IF r.tag = "Ok"
          THEN /\ system_info' = Some(r.val)
               /\ Publish([name |-> "SystemInfo",
                           details |-> to_formatted_string(r.val)],
                          "Failed to send system info")
          ELSE /\ error_log' = error_log \cup {"Failed to collect system info"}
               /\ UNCHANGED <<system_info, tail_pos, buffer, g_published>>
    /\ UNCHANGED <<capturing, captureVars, now, rx, received, monitorVars,
                   host, shutdown, system_event, listener, ghostVars>>

BaselineTask == \E failed \in FailureInputs : BaselineTaskOn(failed)

\* The baseline task step by step.  First it collects and builds the
\* Event, whose timestamp is the time of the construction.
BaselineBuildOn(failed) ==
    /\ ~shutdown
    /\ baseline_tasks > 0
    /\ system_event = None
    /\ baseline_tasks' = baseline_tasks - 1
    /\ LET r == collect(failed) IN
          IF r.tag = "Ok"
          THEN /\ system_event' =
                     Some([event |-> [name |-> "SystemInfo",
                                      details |-> to_formatted_string(r.val)],
                           info |-> r.val, stamp |-> now])
               /\ UNCHANGED error_log
          ELSE /\ error_log' = error_log \cup {"Failed to collect system info"}
               /\ UNCHANGED system_event
    /\ UNCHANGED <<capturing, captureVars, now, tail_pos, buffer, g_published,
                   rx, received, system_info, monitorVars, host, shutdown,
                   listener, ghostVars>>

\* Then, after system_info.lock().await, it stores the snapshot and sends
\* the Event it built.
BaselineSend ==
    /\ ~shutdown
    /\ system_event # None
    /\ system_info' = Some(system_event.val.info)
    /\ PublishAt(system_event.val.event, "Failed to send system info",
                 system_event.val.stamp)
    /\ system_event' = None
    /\ UNCHANGED <<capturing, captureVars, now, rx, received, baseline_tasks,
                   monitorVars, host, shutdown, listener, ghostVars>>

\* The flag as the monitoring loop reads it at the top of an iteration.
MonitorGateOpen == TRUE
MonitorGate == capturing

\* The monitoring loop wakes from its sleep and reads the flag.
MonitorWake ==
    /\ ~shutdown
    /\ monitor_pc = "sleep"
    /\ MonitorGate
    /\ monitor_pc' = "collect"
    /\ UNCHANGED <<capturing, captureVars, now, busVars, rx, received,
                   baseline_tasks, system_info, last_system_info, host,
                   shutdown, system_event, listener, ghostVars>>

\* What the loop retains after a successful collect.
RetainedAfterFirstOnly(fresh) ==
    IF last_system_info = None THEN Some(fresh) ELSE last_system_info
RetainedAfter(fresh) == Some(fresh)

\* What the loop retains when collect returned an error: `if let Ok` has no
\* else branch.
RetainedAfterFailureCleared == None
RetainedAfterFailure == last_system_info

\* The snapshot a fresh one is compared with: the loop's own variable.
\* The snapshot the baseline task stores in the service is never read.
ComparisonBaseOrBaseline ==
    IF last_system_info = None THEN system_info ELSE last_system_info
ComparisonBase == last_system_info

\* The body of the monitoring loop once the flag was read as true.
MonitorCollectOn(failed) ==
    /\ ~shutdown
    /\ monitor_pc = "collect"
    /\ monitor_pc' = "sleep"
    /\ LET r == collect(failed) IN
          IF r.tag = "Ok"
          THEN /\ last_system_info' = RetainedAfter(r.val)
               /\ g_tick' = "ok"
               /\ IF ComparisonBase # None
                     /\ compare_system_info(ComparisonBase.val, r.val) # <<>>
                  THEN Publish([name |-> "SystemInfoChange",
                                details |-> compare_system_info(
                                               ComparisonBase.val, r.val)],
                               "Failed to send system info change")
                  ELSE UNCHANGED busVars
          ELSE /\ g_tick' = "err"
               /\ last_system_info' = RetainedAfterFailure
               /\ UNCHANGED busVars
    /\ UNCHANGED <<capturing, captureVars, now, rx, received, baseline_tasks,
                   system_info, host, shutdown, system_event, listener, g_last_raw, g_run>>

MonitorCollect == \E failed \in FailureInputs : MonitorCollectOn(failed)

\* The host changes (memory added, a device plugged in, ...).
HostChange(h) ==
    /\ ~shutdown
    /\ h # host
    /\ host' = h
    /\ UNCHANGED <<capturing, captureVars, now, busVars, rx, received,
                   baseline_tasks, system_info, monitorVars, shutdown, system_event, listener,
                   ghostVars>>

\* CTRL+C or server termination: main returns and the process exits; every
\* open response stream is cut.
Shutdown ==
    /\ ~shutdown
    /\ shutdown' = TRUE
    /\ rx' = [s \in Subscribers |->
                 IF rx[s].state = "open"
                 THEN [rx[s] EXCEPT !.state = "ended", !.cause = "Shutdown"]
                 ELSE rx[s]]
    /\ UNCHANGED <<capturing, captureVars, now, busVars, received,
                   baseline_tasks, system_info, monitorVars, host, listener,
                   system_event, ghostVars>>

\* The state main has built when it starts to serve, but for the listener
\* thread.
InitServing ==
    /\ capturing = FALSE
    /\ pressed_keys = {}
    /\ pressed_buttons = {}
    /\ now = 0
    /\ last_mouse_move_time = 0 - InitialMoveAge
    /\ tail_pos = 0
    /\ buffer = [i \in 0 .. Capacity - 1 |->
                    [pos |-> i - Capacity, val |-> None, seq |-> 0]]
    /\ rx = [s \in Subscribers |->
                [state |-> "new", next |-> 0, joined |-> 0, cause |-> "-"]]
    /\ received = [s \in Subscribers |-> <<>>]
    /\ error_log = {}
    /\ baseline_tasks = 0
    /\ system_info = None
    /\ last_system_info = None
    /\ monitor_pc = "sleep"
    /\ host = BaseHost
    /\ shutdown = FALSE
    /\ system_event = None
    /\ g_published = <<>>
    /\ g_last_raw = None
    /\ g_run = [k \in Keys |-> IdleRun]
    /\ g_tick = "none"

\* The listener thread has registered the callback.
Init == InitServing /\ listener = "listening"

\* The listener thread was spawned and has not called listen yet.
InitStartup == InitServing /\ listener = "starting"

\* listen(callback) in the listener thread: it blocks and delivers events,
\* or it returns an error, which the thread logs before it ends.
Listen(ok) ==
    /\ ~shutdown
    /\ listener = "starting"
    /\ listener' = IF ok THEN "listening" ELSE "failed"
    /\ error_log' = IF ok THEN error_log
                    ELSE error_log \cup {"Error in event listener"}
    /\ UNCHANGED <<capturing, captureVars, now, tail_pos, buffer, g_published,
                   rx, received, baseline_tasks, system_info, monitorVars,
                   host, shutdown, system_event, ghostVars>>

\* The raw events of the specification of the keys.
KeyRawEvents == [kind : {"KeyPress", "KeyRelease"}, arg : Keys]

\* The capture thread on key events, with the RPC handlers that switch it
\* on and off.
NextKeys ==
    \/ \E e \in KeyRawEvents : Callback(e)
    \/ Start
    \/ Stop
    \/ BaselineTask

SpecKeys == Init /\ [][NextKeys]_vars

\* The capture thread on raw events of every kind at one instant, with the
\* RPC handlers that switch it on and off.
NextGate ==
    \/ \E e \in RawEvents : Callback(e)
    \/ Start
    \/ Stop
    \/ BaselineTask

SpecGate == Init /\ [][NextGate]_vars

\* The raw events of the specification of the throttle.
MoveRawEvents == [kind : {"MouseMove"}, arg : Points]

\* The capture thread on pointer moves while time passes.
NextMove ==
    \/ \E e \in MoveRawEvents : Callback(e)
    \/ \E d \in TimeSteps : Tick(d)
    \/ Start
    \/ Stop
    \/ BaselineTask

SpecMove == Init /\ [][NextMove]_vars

\* The raw events of the specification of the bus.
BusRawEvents == [kind : {"Wheel"}, arg : Deltas]

\* The bus with the capture thread and the baseline task as producers and
\* the streams as consumers.
NextBus ==
    \/ \E e \in BusRawEvents : Callback(e)
    \/ Start
    \/ Stop
    \/ BaselineTask
    \/ \E s \in Subscribers : StreamEvents(s)
    \/ \E s \in Subscribers : StreamNext(s)
    \/ \E s \in Subscribers : Disconnect(s)
    \/ Shutdown

SpecBus == Init /\ [][NextBus]_vars

\* The capture thread as the only producer, started once, and the streams.
NextDeliver ==
    \/ \E e \in BusRawEvents : Callback(e)
    \/ Start
    \/ \E s \in Subscribers : StreamEvents(s)
    \/ \E s \in Subscribers : StreamNext(s)
    \/ \E s \in Subscribers : Disconnect(s)
    \/ Shutdown

\* The stream's task is polled whenever recv can return: its loop is not
\* starved while the client keeps reading.
SpecDeliver ==
    Init /\ [][NextDeliver]_vars /\ \A s \in Subscribers : WF_vars(StreamNext(s))

\* One client that calls Start (any number of times) and then StreamEvents,
\* while the baseline task, the capture thread and the monitoring loop run.
\* Start and StreamEvents are the only RPC calls of this specification.
NextSession ==
    \/ \E e \in BusRawEvents : Callback(e)
    \/ Start
    \/ BaselineTask
    \/ MonitorWake
    \/ MonitorCollect
    \/ \E h \in HostStates : HostChange(h)
    \/ StreamEvents("s1")
    \/ StreamNext("s1")

SpecSession == Init /\ [][NextSession]_vars

\* The whole agent from the start of the listener thread on, on a host
\* whose inventory can be collected: the capture thread, the three RPC
\* handlers, the baseline task, the monitoring loop and one client.
NextAgent ==
    \/ \E ok \in BOOLEAN : Listen(ok)
    \/ \E e \in BusRawEvents : Callback(e)
    \/ Start
    \/ Stop
    \/ BaselineTaskOn({})
    \/ MonitorWake
    \/ MonitorCollectOn({})
    \/ \E h \in HostStates : HostChange(h)
    \/ StreamEvents("s1")
    \/ StreamNext("s1")
    \/ Disconnect("s1")
    \/ Shutdown

SpecAgent == InitStartup /\ [][NextAgent]_vars

\* The baseline task and the monitoring loop when exactly one command of
\* the inventory cannot be run.
SingleFailures == {{c} : c \in Commands}

NextCollect ==
    \/ Start
    \/ \E failed \in SingleFailures : BaselineTaskOn(failed)
    \/ MonitorWake
    \/ \E failed \in SingleFailures : MonitorCollectOn(failed)
    \/ StreamEvents("s1")
    \/ StreamNext("s1")

SpecCollect == Init /\ [][NextCollect]_vars

\* The monitoring loop on a host that changes and whose inventory can fail,
\* with the RPC handlers and one client.
NextMonitor ==
    \/ Start
    \/ Stop
    \/ MonitorWake
    \/ MonitorCollect
    \/ \E h \in HostStates : HostChange(h)
    \/ StreamEvents("s1")
    \/ StreamNext("s1")

SpecMonitor == Init /\ [][NextMonitor]_vars

\* The snapshots compare_system_info is applied to: the base host, the
\* base host after a change of each compared field, of two of them, of the
\* content of a collection but not of its count, and of fields that are
\* not compared.
DiffHosts ==
    {BaseHost,
     [BaseHost EXCEPT !.directx_version = "DirectX 11"],
     [BaseHost EXCEPT !.os_version = "10.1"],
     [BaseHost EXCEPT !.memory_mb = 16384],
     [BaseHost EXCEPT !.local_ip = "10.0.0.3"],
     [BaseHost EXCEPT !.public_ip = "Unknown"],
     [BaseHost EXCEPT !.usb_input_devices = <<"kbd", "mouse">>],
     [BaseHost EXCEPT !.monitors = <<>>],
     [BaseHost EXCEPT !.video_cards = <<"gpu", "gpu2">>],
     [BaseHost EXCEPT !.pci_devices = <<"p1">>],
     [BaseHost EXCEPT !.memory_mb = 16384, !.monitors = <<"m1", "m2">>],
     [BaseHost EXCEPT !.usb_input_devices = <<"mouse">>],
     [BaseHost EXCEPT !.user = "v@HOST", !.drives = <<"d1", "d2">>]}

\* The agent while capture is on and its monitoring loop sleeps, holding
\* any of the snapshots on a host in any of the states: Start was called,
\* its baseline task could not collect, a later tick retained a snapshot
\* and the host changed since.
InitDiff ==
    /\ capturing = TRUE
    /\ pressed_keys = {}
    /\ pressed_buttons = {}
    /\ now = 0
    /\ last_mouse_move_time = 0 - InitialMoveAge
    /\ tail_pos = 0
    /\ buffer = [i \in 0 .. Capacity - 1 |->
                    [pos |-> i - Capacity, val |-> None, seq |-> 0]]
    /\ rx = [s \in Subscribers |->
                [state |-> "new", next |-> 0, joined |-> 0, cause |-> "-"]]
    /\ received = [s \in Subscribers |-> <<>>]
    /\ error_log = {"Failed to collect system info"}
    /\ baseline_tasks = 0
    /\ system_info = None
    /\ last_system_info \in {Some(old) : old \in DiffHosts}
    /\ monitor_pc = "sleep"
    /\ host \in DiffHosts
    /\ shutdown = FALSE
    /\ system_event = None
    /\ listener = "listening"
    /\ g_published = <<>>
    /\ g_last_raw = None
    /\ g_run = [k \in Keys |-> IdleRun]
    /\ g_tick = "ok"

\* One tick of the monitoring loop, read by one client.
NextDiff ==
    \/ MonitorWake
    \/ MonitorCollectOn({})
    \/ StreamEvents("s1")
    \/ StreamNext("s1")

SpecDiff == InitDiff /\ [][NextDiff]_vars

\* The capture thread and the baseline task, step by step, on a host whose
\* inventory can be collected, while time passes, and one client.
StampSteps == {50}

NextStamp ==
    \/ \E e \in BusRawEvents : Callback(e)
    \/ \E d \in StampSteps : Tick(d)
    \/ Start
    \/ BaselineBuildOn({})
    \/ BaselineSend
    \/ StreamEvents("s1")
    \/ StreamNext("s1")

SpecStamp == Init /\ [][NextStamp]_vars

\* The raw events of the specification of Stop: presses, which fill the
\* sets of the callback, and pointer moves, which set the throttle time.
ResumeRawEvents ==
    [kind : {"KeyPress"}, arg : Keys]
    \cup [kind : {"ButtonPress"}, arg : Buttons]
    \cup [kind : {"MouseMove"}, arg : Points]

\* Capture switched off and on again while one client keeps its stream.
NextResume ==
    \/ \E e \in ResumeRawEvents : Callback(e)
    \/ Start
    \/ Stop
    \/ BaselineTask
    \/ StreamEvents("s1")
    \/ StreamNext("s1")

SpecResume == Init /\ [][NextResume]_vars

\* ------------------------------------------------------------- properties
Ev(name, details) == [name |-> name, details |-> details]
LogEntry(ev) == [event |-> ev, rx_cnt |-> RxCnt, at |-> now, stamp |-> now]
PublishedEvents == [i \in 1 .. Len(g_published) |-> g_published[i].event]
KeyDown(k) == [kind |-> "KeyPress", arg |-> k]
KeyUp(k) == [kind |-> "KeyRelease", arg |-> k]
IsKeyEvent(e, k) == e.name \in {"KeyPress", "KeyRelease"} /\ e.details = k
KeyLog(k) == SelectSeq(PublishedEvents, LAMBDA e : IsKeyEvent(e, k))

\* C1: in a run of key-downs of one key processed while capturing with no
\* processed key-up of the key in between, exactly one KeyPress of the key
\* is published (by the first key-down) and the key is marked pressed after
\* each of them: the last published event of the key is that KeyPress and
\* the one before it, if any, is a KeyRelease.
C1_OnePressPerRun ==
    \A k \in Keys :
        g_run[k].downs >= 1 =>
            /\ g_run[k].presses = 1
            /\ k \in pressed_keys
            /\ KeyLog(k) # <<>>
            /\ KeyLog(k)[Len(KeyLog(k))] = Ev("KeyPress", k)
            /\ Len(KeyLog(k)) >= 2 =>
                   KeyLog(k)[Len(KeyLog(k)) - 1] = Ev("KeyRelease", k)

\* C1 witness: two key-downs of KeyA were processed in one run and the only
\* published event is one KeyPress KeyA.
C1_Witness ==
    /\ g_run["KeyA"].downs = 2
    /\ PublishedEvents = <<Ev("KeyPress", "KeyA")>>

\* C2: while capturing, every key-up publishes exactly one KeyRelease of
\* the key and leaves the key not marked pressed, pressed before or not.
C2_KeyUpAlwaysReleases ==
    [][\A k \in Keys :
          (capturing /\ Callback(KeyUp(k))) =>
              /\ g_published' =
                     Append(g_published, LogEntry(Ev("KeyRelease", k)))
              /\ k \notin pressed_keys']_vars

\* C2 witness: a key-up of a key that was never pressed was processed and
\* published the KeyRelease.
C2_Witness ==
    /\ g_last_raw = [event |-> KeyUp("KeyA"), gated |-> FALSE, sent |-> TRUE]
    /\ PublishedEvents = <<Ev("KeyRelease", "KeyA")>>

\* C3: while the flag is false a raw event of any kind publishes nothing
\* and leaves the pressed keys, the pressed buttons and the timestamp of
\* the last accepted move unchanged.
C3_GatedEventHasNoEffect ==
    [][\A e \in RawEvents :
          (~capturing /\ Callback(e)) =>
              UNCHANGED <<g_published, tail_pos, buffer, pressed_keys,
                          pressed_buttons, last_mouse_move_time>>]_vars

\* C3 witness: the key-up of a pressed key arrived while stopped and the
\* key is still marked pressed.
C3_Witness ==
    /\ ~capturing
    /\ g_last_raw # None
    /\ g_last_raw.gated
    /\ g_last_raw.event = KeyUp("KeyA")
    /\ "KeyA" \in pressed_keys
    /\ PublishedEvents = <<Ev("KeyPress", "KeyA")>>

\* C4: Stop and Start leave the pressed keys alone, and a key-down processed
\* after capture was stopped and started again during the key's run
\* publishes no second KeyPress.
C4_NoDuplicateAfterToggle ==
    /\ [](\A k \in Keys :
             g_run[k].toggles = 2 =>
                 g_run[k].presses = 1 /\ k \in pressed_keys)
    /\ [][(Start \/ Stop) => pressed_keys' = pressed_keys]_vars

\* C4 witness: KeyA's KeyPress was published, capture was stopped and
\* started again, and the key-down processed after that published nothing.
C4_Witness ==
    /\ capturing
    /\ g_run["KeyA"].toggles = 2
    /\ g_run["KeyA"].presses = 1
    /\ g_last_raw = [event |-> KeyDown("KeyA"), gated |-> FALSE,
                     sent |-> FALSE]

IsMove(i) == g_published[i].event.name = "MouseMove"

\* C5: while capturing, a pointer move publishes a MouseMove and sets the
\* timestamp to its time iff 50 ms or more have passed since the timestamp;
\* otherwise it publishes nothing and leaves the timestamp.  Hence two
\* published MouseMove are 50 ms or more apart.
C5_MoveThrottle ==
    /\ [](\A i, j \in 1 .. Len(g_published) :
             (i < j /\ IsMove(i) /\ IsMove(j)) =>
                 g_published[j].at - g_published[i].at >= 50)
    /\ [][\A e \in MoveRawEvents :
             (capturing /\ Callback(e)) =>
                 IF now - last_mouse_move_time >= 50
                 THEN /\ g_published' =
                            Append(g_published,
                                   LogEntry(Ev("MouseMove",
                                               format_event_details(e))))
                      /\ last_mouse_move_time' = now
                 ELSE UNCHANGED <<g_published, last_mouse_move_time>>]_vars

\* C5 witness: the move at 0 ms was published and the move at 10 ms was not.
C5_Witness ==
    /\ now = 10
    /\ Len(g_published) = 1
    /\ IsMove(1)
    /\ g_published[1].at = 0
    /\ g_last_raw # None
    /\ g_last_raw.event.kind = "MouseMove"
    /\ ~g_last_raw.gated
    /\ ~g_last_raw.sent

SendErrorMessages ==
    {"Failed to send event", "Failed to send system info",
     "Failed to send system info change"}
Seqs(s) == {received[s][i].seq : i \in 1 .. Len(received[s])}

\* C6: a send with no subscriber stores nothing, logs no error and changes
\* no stream; no send failure is ever logged, and no stream ever yields an
\* event that was sent while there was no subscriber.
C6_SendWithoutSubscribers ==
    /\ [](/\ error_log \cap SendErrorMessages = {}
          /\ \A s \in Subscribers : \A k \in Seqs(s) :
                 g_published[k].rx_cnt > 0)
    /\ [][(RxCnt = 0 /\ Len(g_published') = Len(g_published) + 1) =>
             UNCHANGED <<tail_pos, buffer, error_log, rx, received>>]_vars

\* C6 witness: the first event was sent with no subscriber, no error was
\* logged, and s1, subscribed after it, has received a later event only.
C6_Witness ==
    /\ Len(g_published) >= 2
    /\ g_published[1].rx_cnt = 0
    /\ error_log = {}
    /\ rx["s1"].joined = 1
    /\ Seqs("s1") = {2}

\* C7: every event a stream yields was sent after its subscribe call.
C7_NoReplay ==
    \A s \in Subscribers : \A k \in Seqs(s) : k > rx[s].joined

\* C7 witness: s2 subscribed after an event that s1's subscription made the
\* channel retain, and has received a later event.
C7_Witness ==
    /\ rx["s2"].joined >= 1
    /\ g_published[1].rx_cnt = 1
    /\ Len(received["s2"]) >= 1

Behind(s) == tail_pos - rx[s].next
Lagging(s) ==
    \/ rx[s].cause = "Lagged"
    \/ rx[s].state = "open" /\ Behind(s) > Capacity

\* C8: a stream that does not lag yields the events sent after its
\* subscription in the order of the sends, none twice, none left out in
\* between, none merged; two such streams yield the events they both
\* yield in the same order.
C8_PublishOrder ==
    /\ \A s \in Subscribers :
          ~Lagging(s) =>
              \A i \in 1 .. Len(received[s]) :
                  /\ rx[s].joined + i <= Len(g_published)
                  /\ received[s][i] =
                        [event |-> g_published[rx[s].joined + i].event,
                         seq |-> rx[s].joined + i]
    /\ \A s, t \in Subscribers :
          (~Lagging(s) /\ ~Lagging(t)) =>
              \A a, b \in 1 .. Len(received[s]) :
                  \A c, d \in 1 .. Len(received[t]) :
                      (/\ a < b
                       /\ received[s][a].seq = received[t][c].seq
                       /\ received[s][b].seq = received[t][d].seq) => c < d

\* C8 witness: both streams have yielded the same two events, one of the
\* capture thread and one of the baseline task.
C8_Witness ==
    /\ Len(received["s1"]) = 2
    /\ received["s2"] = received["s1"]
    /\ {received["s1"][i].event.name : i \in 1 .. 2} =
           {"MouseWheel", "SystemInfo"}

Delivered(s, k) == k \in Seqs(s)
Retained(s, k) ==
    \E i \in 0 .. Capacity - 1 :
        buffer[i].seq = k /\ buffer[i].pos >= rx[s].next

\* C9: a stream that is never more than Capacity events behind yields every
\* event sent while it is subscribed, once: recv reports a lag only when
\* the stream is more than Capacity behind, an event not yet yielded is
\* still in the channel, no event is yielded twice, and every event sent
\* to an open stream is eventually yielded unless the stream ends.
C9_DeliveredOnce ==
    /\ [](\A s \in Subscribers :
             /\ rx[s].cause = "Lagged" => Behind(s) > Capacity
             /\ \A i, j \in 1 .. Len(received[s]) :
                    i # j => received[s][i].seq # received[s][j].seq
             /\ (rx[s].state = "open" /\ Behind(s) <= Capacity) =>
                    \A k \in rx[s].joined + 1 .. Len(g_published) :
                        Delivered(s, k) \/ Retained(s, k))
    /\ \A s \in Subscribers : \A k \in 1 .. MaxEvents :
          (rx[s].state = "open" /\ rx[s].joined < k /\ k <= Len(g_published))
              ~> (Delivered(s, k) \/ rx[s].state = "ended")

\* C9 witness: s1 was Capacity events behind and has since received
\* all of them.
C9_Witness ==
    /\ rx["s1"].state = "open"
    /\ rx["s1"].joined = 0
    /\ Len(received["s1"]) = Capacity
    /\ Len(g_published) = Capacity
    /\ \A k \in 1 .. Capacity : g_published[k].rx_cnt = 1

\* C10: a stream ends only when its subscriber disconnects or the process
\* shuts down; falling more than Capacity events behind does not end it.
C10_StreamEndsOnlyOnDisconnectOrShutdown ==
    \A s \in Subscribers :
        rx[s].state = "ended" => rx[s].cause \in {"Disconnect", "Shutdown"}

\* C11: a stream subscribed right after Start has returned receives the
\* SystemInfo baseline of that Start as its first event.  Start and
\* StreamEvents are the only RPC calls of SpecSession and nothing is sent
\* before the first Start, so a stream that joined after an event had been
\* sent (joined >= 1) was subscribed by a StreamEvents call whose preceding
\* RPC call is a Start that had returned.
C11_FirstEventIsBaseline ==
    rx["s1"].joined >= 1 /\ received["s1"] # <<>>
        => received["s1"][1].event.name = "SystemInfo"

\* C12: every Start is followed by exactly one SystemInfo publication.
\* Start spawns one baseline task per call, so the statement is that every
\* run of a baseline task sends exactly one event, the SystemInfo event
\* with the full formatted snapshot.
C12_BaselinePublishedOnce ==
    [][BaselineTask =>
          g_published' = Append(g_published,
                                LogEntry(Ev("SystemInfo",
                                            to_formatted_string(host))))]_vars

\* C13: the flag is a boolean that starts false (Stopped); Start leaves it
\* true and Stop leaves it false from either state, and a step that
\* changes the flag is a step of Start or of Stop.
C13_Lifecycle ==
    /\ capturing = FALSE
    /\ [][/\ capturing \in BOOLEAN /\ capturing' \in BOOLEAN
          /\ Start => capturing' = TRUE
          /\ Stop => capturing' = FALSE
          /\ capturing' # capturing => Start \/ Stop]_vars

\* Capture was started, something was sent, and capture is stopped again.
C13_Witness == ~capturing /\ g_published # <<>> /\ baseline_tasks = 0

\* C14: no event of any kind is handed to the bus while the state is
\* Stopped: every step that sends starts in a state where the flag is true.
C14_NoPublishWhileStopped == [][g_published' # g_published => capturing]_vars

\* C15: Stop changes the flag and nothing else of the agent: the streams
\* and what they have received, the channel, the pressed sets and the
\* throttle time, the pending baseline tasks and the stored snapshot stay
\* as they are, so a stream that is open before Stop is open after it.
C15_StopChangesOnlyTheToggle ==
    [][Stop => /\ capturing' = FALSE
               /\ UNCHANGED <<rx, received, pressed_keys, pressed_buttons,
                              last_mouse_move_time, tail_pos, buffer,
                              baseline_tasks, system_info, error_log>>]_vars

\* A stream subscribed before anything was sent has received KeyPress KeyA;
\* capture was then stopped and started again (the second key-down of KeyA
\* was processed after the Stop and suppressed, KeyA being still in the
\* set); the last raw event, the key-down of KeyB, was sent and the same
\* stream has received it.
C15_Witness ==
    /\ g_run["KeyA"].toggles = 2
    /\ g_last_raw # None
    /\ g_last_raw.event = KeyDown("KeyB")
    /\ g_last_raw.sent
    /\ rx["s1"].state = "open"
    /\ rx["s1"].joined = 0
    /\ \E i, j \in 1 .. Len(received["s1"]) :
          /\ i < j
          /\ received["s1"][i].event = Ev("KeyPress", "KeyA")
          /\ received["s1"][j].event = Ev("KeyPress", "KeyB")

\* The nine compared fields by the label of their line, and the value a
\* snapshot has for each: a text, a size, or the count of a collection.
ComparedFields ==
    {"DirectX version", "OS version", "Memory", "Local IP", "Public IP",
     "USB devices count", "Monitor count", "Video cards count",
     "PCI devices count"}
ComparedValue(f, info) ==
    CASE f = "DirectX version" -> info.directx_version
      [] f = "OS version" -> info.os_version
      [] f = "Memory" -> info.memory_mb
      [] f = "Local IP" -> info.local_ip
      [] f = "Public IP" -> info.public_ip
      [] f = "USB devices count" -> Len(info.usb_input_devices)
      [] f = "Monitor count" -> Len(info.monitors)
      [] f = "Video cards count" -> Len(info.video_cards)
      [] f = "PCI devices count" -> Len(info.pci_devices)
Differing(old, new) ==
    {f \in ComparedFields : ComparedValue(f, old) # ComparedValue(f, new)}

\* C16: the diff of the retained snapshot and the host's snapshot has one
\* line for each compared field on which they differ, with the two values,
\* and no other line: none when the nine fields are equal, one when one
\* differs.  A tick sends a SystemInfoChange exactly when the diff has a
\* line.
C16_OneLinePerDifferingField ==
    /\ [](last_system_info # None =>
            LET old == last_system_info.val
                d == compare_system_info(old, host)
            IN  /\ Len(d) = Cardinality(Differing(old, host))
                /\ {d[i].field : i \in 1 .. Len(d)} = Differing(old, host)
                /\ \A i \in 1 .. Len(d) :
                      /\ d[i].old = ComparedValue(d[i].field, old)
                      /\ d[i].new = ComparedValue(d[i].field, host))
    /\ [][MonitorCollectOn({}) /\ last_system_info # None =>
             IF Differing(last_system_info.val, host) = {}
             THEN g_published' = g_published
             ELSE g_published' =
                     Append(g_published,
                            LogEntry(Ev("SystemInfoChange",
                                        compare_system_info(
                                            last_system_info.val, host))))]_vars

\* A tick has sent a SystemInfoChange whose only line is the line of the
\* memory size, and the client has received it.
C16_Witness ==
    \E i \in 1 .. Len(received["s1"]) :
        /\ received["s1"][i].event.name = "SystemInfoChange"
        /\ Len(received["s1"][i].event.details) = 1
        /\ received["s1"][i].event.details[1].field = "Memory"

\* C17: a tick sends an event only if the loop holds a retained snapshot
\* and the fresh one differs from it, and the event is one
\* SystemInfoChange; the first successful tick sends nothing and retains
\* the fresh snapshot.
C17_ChangeOnlyAgainstPrior ==
    [][MonitorCollect =>
          /\ g_published' # g_published =>
                /\ last_system_info # None
                /\ last_system_info.val # host
                /\ Len(g_published') = Len(g_published) + 1
                /\ g_published'[Len(g_published')].event.name
                       = "SystemInfoChange"
          /\ last_system_info = None /\ g_tick' = "ok" =>
                /\ g_published' = g_published
                /\ last_system_info' = Some(host)]_vars

\* The first successful tick has run: a snapshot is retained and nothing
\* was sent.
C17_Witness ==
    /\ g_tick = "ok"
    /\ last_system_info = Some(BaseHost)
    /\ g_published = <<>>
    /\ monitor_pc = "sleep"

\* C18: a tick whose collect fails sends nothing and leaves the retained
\* snapshot as it is; the successful tick after it sends the diff against
\* that snapshot.
C18_FailedTickKeepsRetained ==
    [][MonitorCollect =>
          /\ g_tick' = "err" =>
                UNCHANGED <<g_published, tail_pos, buffer, last_system_info>>
          /\ g_tick = "err" /\ g_tick' = "ok" /\ last_system_info # None
               /\ Differing(last_system_info.val, host) # {} =>
                g_published' =
                    Append(g_published,
                           LogEntry(Ev("SystemInfoChange",
                                       compare_system_info(
                                           last_system_info.val, host))))]_vars

\* The last tick failed after the host had changed; the loop still holds
\* the snapshot it retained before.
C18_Witness ==
    /\ g_tick = "err"
    /\ last_system_info = Some(BaseHost)
    /\ host # BaseHost

\* C19: when a single command of the inventory cannot be run, collect
\* still returns a snapshot: no baseline task logs a failed collect and no
\* tick of the monitoring loop ends with an error.  SpecCollect runs every
\* collect with exactly one failing command.
C19_SingleFailureDegrades ==
    /\ g_tick # "err"
    /\ "Failed to collect system info" \notin error_log

\* C20: once the registration of the callback has failed, the thread has
\* logged the error and stays ended, the callback has never run and never
\* runs (no raw event seen, the sets empty, every event sent is a
\* SystemInfo or a SystemInfoChange), and the RPC handlers, the baseline
\* task and the monitoring loop can take their steps and have their
\* effects as they do otherwise.
C20_OnlyInputCaptureLost ==
    /\ [](listener = "failed" =>
            /\ "Error in event listener" \in error_log
            /\ g_last_raw = None
            /\ pressed_keys = {} /\ pressed_buttons = {}
            /\ \A i \in 1 .. Len(g_published) :
                  g_published[i].event.name
                      \in {"SystemInfo", "SystemInfoChange"}
            /\ ~shutdown =>
                  /\ baseline_tasks < MaxTasks => ENABLED Start
                  /\ capturing => ENABLED Stop
                  /\ rx["s1"].state = "new" => ENABLED StreamEvents("s1")
                  /\ baseline_tasks > 0 /\ Len(g_published) < MaxEvents
                        => ENABLED BaselineTaskOn({})
                  /\ monitor_pc = "sleep" /\ capturing => ENABLED MonitorWake
                  /\ monitor_pc = "collect" /\ Len(g_published) < MaxEvents
                        => ENABLED MonitorCollectOn({}))
    /\ [][listener = "failed" =>
             /\ listener' = "failed"
             /\ Start => capturing' /\ baseline_tasks' = baseline_tasks + 1
             /\ Stop => ~capturing'
             /\ BaselineTaskOn({}) =>
                   g_published'[Len(g_published')].event.name = "SystemInfo"]_vars

\* The registration failed; the client has received the baseline of a
\* Start and a SystemInfoChange of the monitoring loop, and capture was
\* stopped afterwards.
C20_Witness ==
    /\ listener = "failed"
    /\ ~capturing
    /\ \E i, j \in 1 .. Len(received["s1"]) :
          /\ received["s1"][i].event.name = "SystemInfo"
          /\ received["s1"][j].event.name = "SystemInfoChange"

\* C21: while capturing, the callback on a wheel event sends exactly one
\* MouseWheel event with the deltas of the raw event, whatever was sent
\* before, and leaves the pressed sets and the throttle time as they are.
C21_WheelAlwaysPublished ==
    [][\A e \in [kind : {"Wheel"}, arg : Deltas] :
          capturing /\ Callback(e) =>
              /\ g_published' =
                     Append(g_published,
                            LogEntry(Ev("MouseWheel", format_event_details(e))))
              /\ UNCHANGED <<pressed_keys, pressed_buttons,
                             last_mouse_move_time>>]_vars

\* Two wheel events with the same deltas were processed in a row while a
\* key was held: two identical MouseWheel events follow each other.
C21_Witness ==
    /\ pressed_keys # {}
    /\ \E i \in 1 .. Len(g_published) - 1 :
          /\ g_published[i].event.name = "MouseWheel"
          /\ g_published[i + 1].event = g_published[i].event

\* Whether the event sent at position i is the press of a key or button,
\* and whether a release of it was sent after position i.
PressedAt(press, arg, i) == g_published[i].event = Ev(press, arg)
ReleasedAfter(release, arg, i) ==
    \E j \in i + 1 .. Len(g_published) :
        g_published[j].event = Ev(release, arg)

\* C22: for every key in pressed_keys a KeyPress of it was sent and no
\* KeyRelease of it was sent since, and the same for every button in
\* pressed_buttons with MouseButtonPress and MouseButtonRelease.
C22_PressedMeansPressPublished ==
    /\ \A k \in pressed_keys :
          \E i \in 1 .. Len(g_published) :
              /\ PressedAt("KeyPress", k, i)
              /\ ~ReleasedAfter("KeyRelease", k, i)
    /\ \A b \in pressed_buttons :
          \E i \in 1 .. Len(g_published) :
              /\ PressedAt("MouseButtonPress", b, i)
              /\ ~ReleasedAfter("MouseButtonRelease", b, i)

\* KeyA is held again after a KeyRelease of it was sent, and capture was
\* stopped meanwhile or since.
C22_Witness ==
    /\ "KeyA" \in pressed_keys
    /\ \E i \in 1 .. Len(g_published) :
          g_published[i].event = Ev("KeyRelease", "KeyA")
    /\ ~capturing

\* KeyPress and KeyRelease renamed to the names of the buttons.
Renamed(name) ==
    CASE name = Some("KeyPress") -> Some("MouseButtonPress")
      [] name = Some("KeyRelease") -> Some("MouseButtonRelease")
      [] OTHER -> name

\* C23: the buttons follow the state machine of the keys.  In every
\* reachable state, for a key and a button that are both held or both not
\* held, the callback on a button-down (button-up) names the renamed event
\* of the callback on the key-down (key-up), with the button as details as
\* the key has the key, and the button is held afterwards iff the key is;
\* neither touches the other set, and Stop leaves the keys as it leaves the
\* buttons.  By induction the events sent for a sequence of button events
\* and toggles are the renamed events of the same sequence of key events.
C23_ButtonsLikeKeys ==
    \A k \in Keys, b \in Buttons :
        (k \in pressed_keys <=> b \in pressed_buttons) =>
            /\ \A kinds \in {<<"KeyPress", "ButtonPress">>,
                              <<"KeyRelease", "ButtonRelease">>} :
                  LET ke == [kind |-> kinds[1], arg |-> k]
                      be == [kind |-> kinds[2], arg |-> b]
                      ck == Classify(ke)
                      cb == Classify(be)
                  IN  /\ cb.name = Renamed(ck.name)
                      /\ b \in cb.buttons <=> k \in ck.keys
                      /\ cb.keys = pressed_keys
                      /\ ck.buttons = pressed_buttons
                      /\ cb.last = ck.last
                      /\ format_event_details(ke) = k
                      /\ format_event_details(be) = b
            /\ k \in KeysAfterStop <=> b \in pressed_buttons

\* A key and a button are held, their presses were sent, and the key-up
\* and button-up of another run were sent before.
C23_Witness ==
    /\ "KeyA" \in pressed_keys
    /\ "Left" \in pressed_buttons
    /\ \E i, j \in 1 .. Len(g_published) :
          /\ g_published[i].event = Ev("KeyPress", "KeyA")
          /\ g_published[j].event = Ev("MouseButtonPress", "Left")
    /\ \E i \in 1 .. Len(g_published) :
          g_published[i].event.name \in {"KeyRelease", "MouseButtonRelease"}

StampOf(s, k) == g_published[received[s][k].seq].stamp

\* C25: the timestamps of the events a stream that does not lag receives
\* are non-decreasing in the order of delivery.
C25_DeliveredInTimestampOrder ==
    \A s \in Subscribers :
        ~Lagging(s) =>
            \A i, j \in 1 .. Len(received[s]) :
                i < j => StampOf(s, i) <= StampOf(s, j)

\* The raw press and release of a button.
ButtonDown(b) == [kind |-> "ButtonPress", arg |-> b]
ButtonUp(b) == [kind |-> "ButtonRelease", arg |-> b]

\* The event a step has sent, if it has sent one.
Sent(ev) ==
    /\ Len(g_published') = Len(g_published) + 1
    /\ g_published'[Len(g_published')].event = ev

\* C26: a key-up that arrives while capture is stopped is dropped and
\* leaves the key marked; while a key is marked its key-down sends
\* nothing, whatever Start and Stop did meanwhile; the mark goes only with
\* a key-up processed while capturing, and a KeyPress is sent only for a
\* key that is not marked.  The same holds for the buttons.
C26_StaleMarkSuppressesPress ==
    [][/\ \A k \in Keys :
            /\ ~capturing /\ Callback(KeyUp(k)) =>
                  UNCHANGED <<pressed_keys, g_published>>
            /\ k \in pressed_keys /\ Callback(KeyDown(k)) =>
                  UNCHANGED <<pressed_keys, g_published>>
            /\ k \in pressed_keys /\ k \notin pressed_keys' =>
                  capturing /\ Callback(KeyUp(k))
            /\ Sent(Ev("KeyPress", k)) => k \notin pressed_keys
       /\ \A b \in Buttons :
            /\ ~capturing /\ Callback(ButtonUp(b)) =>
                  UNCHANGED <<pressed_buttons, g_published>>
            /\ b \in pressed_buttons /\ Callback(ButtonDown(b)) =>
                  UNCHANGED <<pressed_buttons, g_published>>
            /\ b \in pressed_buttons /\ b \notin pressed_buttons' =>
                  capturing /\ Callback(ButtonUp(b))
            /\ Sent(Ev("MouseButtonPress", b)) => b \notin pressed_buttons]_vars

\* KeyA's press was sent, capture was stopped and started again within the
\* run of KeyA (a key-up while stopped does not end the run), the key-down
\* processed after the restart sent no second KeyPress, and a button is
\* held as well.
C26_Witness ==
    /\ capturing
    /\ "KeyA" \in pressed_keys
    /\ g_run["KeyA"] = [downs |-> 2, presses |-> 1, toggles |-> 2]
    /\ "Left" \in pressed_buttons

\* What a successful tick that holds a retained snapshot sends: nothing
\* when the host's snapshot equals it on the compared fields, otherwise
\* the diff against it.
SendsDiffAgainstRetained ==
    IF Differing(last_system_info.val, host) = {}
    THEN g_published' = g_published
    ELSE Sent(Ev("SystemInfoChange",
                 compare_system_info(last_system_info.val, host)))

\* C27: Start and Stop leave the retained snapshot and the loop alone; a
\* tick that finds capture stopped collects nothing, sends nothing and
\* keeps the retained snapshot; a successful tick sends the diff of the
\* host's snapshot against the retained one, which after a restart is the
\* one retained before the Stop.
C27_RetainedSurvivesRestart ==
    [][/\ Start \/ Stop => UNCHANGED <<last_system_info, monitor_pc>>
       /\ ~capturing /\ monitor_pc = "sleep" =>
             /\ UNCHANGED <<last_system_info, monitor_pc>>
             /\ g_published' # g_published =>
                   g_published'[Len(g_published')].event.name
                       # "SystemInfoChange"
       /\ MonitorCollectOn({}) /\ last_system_info # None =>
             SendsDiffAgainstRetained]_vars

\* A MouseWheel was sent, the raw event after it was dropped by the gate
\* (capture had been stopped), capture is on again, and the last event
\* sent is the SystemInfoChange of a host change, now retained.
C27_Witness ==
    /\ capturing
    /\ g_last_raw # None
    /\ g_last_raw.gated
    /\ \E i \in 1 .. Len(g_published) :
          g_published[i].event.name = "MouseWheel"
    /\ g_published[Len(g_published)].event.name = "SystemInfoChange"
    /\ last_system_info = Some(host)
    /\ host # BaseHost

Changes == SelectSeq(PublishedEvents, LAMBDA e : e.name = "SystemInfoChange")

\* C29: every successful tick retains the fresh snapshot, whether it sent
\* a SystemInfoChange or not, so a tick on a host that reports what is
\* retained sends nothing: a change is reported once, and of two
\* SystemInfoChange events in a row the second starts from the values the
\* first ended with.
C29_ChangeReportedOnce ==
    /\ [][MonitorCollect /\ g_tick' = "ok" =>
             /\ last_system_info' = Some(host)
             /\ last_system_info = Some(host) => g_published' = g_published]_vars
    /\ [](\A i \in 1 .. Len(Changes) - 1 :
             /\ Changes[i + 1] # Changes[i]
             /\ Changes[i + 1].details[1].old = Changes[i].details[1].new)

\* The host changed once; one SystemInfoChange was sent for it, the
\* changed snapshot is retained and the loop sleeps again.
C29_Witness ==
    /\ Len(Changes) = 1
    /\ g_tick = "ok"
    /\ monitor_pc = "sleep"
    /\ host # BaseHost
    /\ last_system_info = Some(host)
====
